---- MODULE Spec2Model ----
(***************************************************************************)
(* Model of the four Decart nodes (src/decart/*.py): DecartLucyDevI2V,     *)
(* DecartLucyProT2I, DecartLucyProT2V and DecartLucyVideoEdit.             *)
(*                                                                         *)
(* One node of one class is constructed (Init) and then executed up to     *)
(* MaxRuns times.  An execution of _process is cut at its blocking calls:  *)
(* Start (credential, parameter reads, validation), Encode (the media      *)
(* payload encoder), Post (the provider call), Decode (the response        *)
(* decoder, the save and the publish) and Finish (the return or raise).    *)
(*                                                                         *)
(* Python values are tagged records: PyNone, PyStr (a sequence of          *)
(* one-character strings), PyInt, PyBytes (a sequence of 0..255), PyDict   *)
(* and PyObj.                                                              *)
(***************************************************************************)
EXTENDS Integers, Sequences, FiniteSets, TLC

\* ------------------------------------------------------------------ bounds
\* number of executions of the node in one behaviour
MaxRuns == 2
\* number of distinct values uuid.uuid4() is drawn from
MaxToken == 2

\* ------------------------------------------------------- Python values
PyNone == [t |-> "None"]
PyStr(s) == [t |-> "str", v |-> s]
PyInt(n) == [t |-> "int", v |-> n]
PyBytes(b) == [t |-> "bytes", v |-> b]
\* a dict: items is a function from the keys present to their values
PyDict(items) == [t |-> "dict", items |-> items]
\* any other object: the attributes hasattr() finds, its value attribute
\* and its truth value (griptape artifacts define __bool__ as bool(value))
PyObj(cls, attrs, value, truthy) ==
    [t |-> "obj", cls |-> cls, attrs |-> attrs, value |-> value, truthy |-> truthy]

\* Python's truth value of x, as `not x` and `if x:` test it
Truthy(x) ==
    CASE x.t = "None" -> FALSE
      [] x.t = "str" -> x.v # <<>>
      [] x.t = "int" -> x.v # 0
      [] x.t = "bytes" -> x.v # <<>>
      [] x.t = "dict" -> DOMAIN x.items # {}
      [] OTHER -> x.truthy

\* hasattr(x, name)
HasAttr(x, name) == x.t = "obj" /\ name \in x.attrs

\* d.get(key, default)
DictGet(d, key, default) == IF key \in DOMAIN d.items THEN d.items[key] ELSE default

\* ------------------------------------------------------ Python str methods
\* s[i:i+len(sub)] == sub
MatchAt(s, sub, i) ==
    /\ i + Len(sub) - 1 <= Len(s)
    /\ SubSeq(s, i, i + Len(sub) - 1) = sub

\* sub in s
Contains(s, sub) == \E i \in 1..Len(s) : MatchAt(s, sub, i)

\* s.startswith(p)
StartsWith(s, p) == MatchAt(s, p, 1)

\* s.find(sub) + 1: the first position of sub in s, 0 when there is none
Find(s, sub) ==
    IF Contains(s, sub)
    THEN CHOOSE i \in 1..Len(s) :
            MatchAt(s, sub, i) /\ \A j \in 1..(i - 1) : ~MatchAt(s, sub, j)
    ELSE 0

\* s.split(sep): the pieces of s between the occurrences of sep
RECURSIVE Split(_, _)
Split(s, sep) ==
    LET i == Find(s, sep)
    IN IF i = 0
       THEN <<s>>
       ELSE <<SubSeq(s, 1, i - 1)>> \o Split(SubSeq(s, i + Len(sep), Len(s)), sep)

\* xs[-1]
Last(xs) == xs[Len(xs)]

\* ------------------------------------------------------- base64.b64decode
B64Alphabet ==
    <<"A", "B", "C", "D", "E", "F", "G", "H", "I", "J", "K", "L", "M", "N", "O", "P", "Q", "R", "S", "T", "U", "V", "W", "X", "Y", "Z", "a", "b", "c", "d", "e", "f", "g", "h", "i", "j", "k", "l", "m", "n", "o", "p", "q", "r", "s", "t", "u", "v", "w", "x", "y", "z", "0", "1", "2", "3", "4", "5", "6", "7", "8", "9", "+", "/">>

\* the 6-bit value of an alphabet character
B64Value(c) == (CHOOSE i \in 1..Len(B64Alphabet) : B64Alphabet[i] = c) - 1

IsB64Char(c) == \E i \in 1..Len(B64Alphabet) : B64Alphabet[i] = c

\* binascii.a2b_base64 in its default (non-strict) mode, from position i of
\* s with quad_pos characters of the current quad read, leftchar the bits
\* not yet written, pads the padding characters seen since the last data
\* character and out the bytes written: characters outside the alphabet are
\* skipped, padding that completes a quad ends the decoding, and a quad left
\* incomplete at the end is an error (binascii.Error).
RECURSIVE A2bBase64(_, _, _, _, _, _)
A2bBase64(s, i, quad_pos, leftchar, pads, out) ==
    IF i > Len(s)
    THEN [ok |-> quad_pos = 0, bytes |-> out]
    ELSE IF s[i] = "="
    THEN IF quad_pos >= 2 /\ quad_pos + pads + 1 >= 4
         THEN [ok |-> TRUE, bytes |-> out]
         ELSE A2bBase64(s, i + 1, quad_pos, leftchar,
                        IF quad_pos >= 2 THEN pads + 1 ELSE pads, out)
    ELSE IF ~IsB64Char(s[i])
    THEN A2bBase64(s, i + 1, quad_pos, leftchar, pads, out)
    ELSE LET c == B64Value(s[i])
         IN CASE quad_pos = 0 -> A2bBase64(s, i + 1, 1, c, 0, out)
              [] quad_pos = 1 ->
                    A2bBase64(s, i + 1, 2, c % 16, 0,
                              Append(out, leftchar * 4 + c \div 16))
              [] quad_pos = 2 ->
                    A2bBase64(s, i + 1, 3, c % 4, 0,
                              Append(out, leftchar * 16 + c \div 4))
              [] OTHER ->
                    A2bBase64(s, i + 1, 0, 0, 0,
                              Append(out, leftchar * 64 + c))

\* base64.b64decode(s)
B64Decode(s) == A2bBase64(s, 1, 0, 0, 0, <<>>)

\* -------------------------------------------------------- the node classes
I2V == "DecartLucyDevI2V"
T2I == "DecartLucyProT2I"
T2V == "DecartLucyProT2V"
Edit == "DecartLucyVideoEdit"
Kinds == {I2V, T2I, T2V, Edit}

BASE_URL == <<"h", "t", "t", "p", "s", ":", "/", "/", "a", "p", "i", ".", "d", "e", "c", "a", "r", "t", ".", "a", "i", "/", "v", "1", "/", "g", "e", "n", "e", "r", "a", "t", "e", "/">>

MODEL_NAME(k) ==
    CASE k = I2V -> <<"l", "u", "c", "y", "-", "d", "e", "v", "-", "i", "2", "v">>
      [] k = T2I -> <<"l", "u", "c", "y", "-", "p", "r", "o", "-", "t", "2", "i">>
      [] k = T2V -> <<"l", "u", "c", "y", "-", "p", "r", "o", "-", "t", "2", "v">>
      [] OTHER -> <<"l", "u", "c", "y", "-", "p", "r", "o", "-", "v", "2", "v">>

\* the parameters each class declares with add_parameter, outputs excluded
Parameters(k) ==
    CASE k = I2V -> {"image_input", "prompt", "seed", "resolution"}
      [] k = T2I -> {"prompt", "seed", "resolution", "orientation"}
      [] k = T2V -> {"prompt", "seed", "resolution", "orientation"}
      [] OTHER -> {"video_input", "prompt"}

\* the name of the media parameter of a class that has one
MediaParameter(k) == IF k = I2V THEN "image_input" ELSE "video_input"

\* the classes whose _process reads an input media value
HasMedia(k) == k \in {I2V, Edit}

\* the filename used when none is derived from the input
DefaultFilename(k) == IF k = I2V THEN <<"i", "n", "p", "u", "t", ".", "p", "n", "g">> ELSE <<"i", "n", "p", "u", "t", ".", "m", "p", "4">>

\* the default of the dict's "type" entry, and the content type of the part
DefaultType(k) == IF k = I2V THEN <<"i", "m", "a", "g", "e", "/", "p", "n", "g">> ELSE <<"v", "i", "d", "e", "o", "/", "m", "p", "4">>

ContentType(k) == IF k = I2V THEN <<"i", "m", "a", "g", "e", "/", "p", "n", "g">> ELSE <<"v", "i", "d", "e", "o", "/", "m", "p", "4">>

\* the prefix and the suffix of the name the response is saved under
OutputPrefix(k) ==
    CASE k = I2V -> <<"d", "e", "c", "a", "r", "t", "_", "i", "2", "v", "_", "o", "u", "t", "p", "u", "t", "_">>
      [] k = T2I -> <<"d", "e", "c", "a", "r", "t", "_", "t", "2", "i", "_", "o", "u", "t", "p", "u", "t", "_">>
      [] k = T2V -> <<"d", "e", "c", "a", "r", "t", "_", "t", "2", "v", "_", "o", "u", "t", "p", "u", "t", "_">>
      [] OTHER -> <<"d", "e", "c", "a", "r", "t", "_", "o", "u", "t", "p", "u", "t", "_">>

OutputSuffix(k) == IF k = T2I THEN <<".", "p", "n", "g">> ELSE <<".", "m", "p", "4">>

\* the existing-file policy save_static_file is called with: three classes
\* pass ExistingFilePolicy.CREATE_NEW, DecartLucyVideoEdit passes none and
\* leaves the choice to the callee's default
SavePolicy(k) == IF k = Edit THEN "unspecified" ELSE "CREATE_NEW"

\* the class of the artifact the response is wrapped in
OutputArtifact(k) == IF k = T2I THEN "ImageUrlArtifact" ELSE "VideoUrlArtifact"

\* the output parameter the artifact is published to
OutputParameter(k) == IF k = T2I THEN "image_output" ELSE "video_output"

\* ---------------------------------------------- the media payload encoder
\* what a call returned or raised: exc is "" when it returned
Returned(filename, content, calls) ==
    [exc |-> "", filename |-> filename, content |-> content, calls |-> calls]

Raised(exc, calls) ==
    [exc |-> exc, filename |-> <<>>, content |-> <<>>, calls |-> calls]

\* the calls the encoder makes, as they are recorded in the execution's log
CallB64Decode == [op |-> "b64decode", url |-> <<>>]
CallGet(url) == [op |-> "GET", url |-> url]
CallToBytes == [op |-> "to_bytes", url |-> <<>>]

\* response.raise_for_status() raises for a 4xx or 5xx status
RaisesForStatus(status_code) == status_code >= 400 /\ status_code < 600

\* the filename taken from a URL: its last "/"-separated piece when that
\* piece has a "." and at most 4 characters after its last ".", else the
\* default filename
UrlFilename(k, url) ==
    LET url_path == Last(Split(url, <<"/">>))
    IN IF Contains(url_path, <<".">>) /\ Len(Last(Split(url_path, <<".">>))) <= 4
       THEN url_path
       ELSE DefaultFilename(k)

\* TypeFilename with the type ignored
TypeFilenameDefault(k, media_type) == DefaultFilename(k)

\* the filename of a base64 input: "input." and the piece of the type after
\* its first "/", the default filename when the type has no "/"
TypeFilename(k, media_type) ==
    IF Contains(media_type, <<"/">>)
    THEN <<"i", "n", "p", "u", "t", ".">> \o Split(media_type, <<"/">>)[2]
    ELSE DefaultFilename(k)

\* the dict branch of the encoder; get is the outcome of requests.get
ConvertDict(k, media_input, get) ==
    LET value == DictGet(media_input, "value", PyStr(<<>>))
        media_type == DictGet(media_input, "type", PyStr(DefaultType(k)))
    IN IF value.t # "str"
       THEN Raised("TypeError", <<>>)
       ELSE IF Contains(value.v, <<"b", "a", "s", "e", "6", "4", ",">>)
       THEN LET base64_data == Split(value.v, <<"b", "a", "s", "e", "6", "4", ",">>)[2]
                decoded == B64Decode(base64_data)
            IN IF ~decoded.ok
               THEN Raised("binascii.Error", <<CallB64Decode>>)
               ELSE IF media_type.t # "str"
               THEN Raised("TypeError", <<CallB64Decode>>)
               ELSE Returned(TypeFilename(k, media_type.v), decoded.bytes,
                             <<CallB64Decode>>)
       ELSE IF StartsWith(value.v, <<"h", "t", "t", "p", ":", "/", "/">>) \/ StartsWith(value.v, <<"h", "t", "t", "p", "s", ":", "/", "/">>)
       THEN IF get.exc
            THEN Raised("requests.ConnectionError", <<CallGet(value.v)>>)
            ELSE IF RaisesForStatus(get.status_code)
            THEN Raised("requests.HTTPError", <<CallGet(value.v)>>)
            ELSE Returned(UrlFilename(k, value.v), get.content, <<CallGet(value.v)>>)
       ELSE Raised("ValueError: Unsupported dictionary value format", <<>>)

\* _convert_image_to_file_payload and _convert_video_to_file_payload: get is
\* the outcome of requests.get and to_bytes that of media_input.to_bytes(),
\* each used only on the branch that makes the call
ConvertToFilePayload(k, media_input, get, to_bytes) ==
    IF media_input.t = "dict"
    THEN ConvertDict(k, media_input, get)
    ELSE IF HasAttr(media_input, "to_bytes")
    THEN IF to_bytes.exc
         THEN Raised("to_bytes error", <<CallToBytes>>)
         ELSE Returned(IF HasAttr(media_input, "value") /\ media_input.value.t = "str"
                       THEN UrlFilename(k, media_input.value.v)
                       ELSE DefaultFilename(k),
                       to_bytes.content, <<CallToBytes>>)
    ELSE IF HasAttr(media_input, "value") /\ media_input.value.t = "bytes"
    THEN Returned(DefaultFilename(k), media_input.value.v, <<>>)
    ELSE Raised("ValueError: Unsupported input type", <<>>)

\* FilesPayload with the content type guessed from the filename's extension
FilesPayloadGuessed(k, r) ==
    <<[name |-> "data", filename |-> r.filename, content |-> r.content,
       content_type |-> (IF k = I2V THEN <<"i", "m", "a", "g", "e", "/">> ELSE <<"v", "i", "d", "e", "o", "/">>)
                        \o Last(Split(r.filename, <<".">>))]>>

\* the files argument of requests.post, {"data": (filename, file, content_type)},
\* as the sequence of its file parts
FilesPayload(k, r) ==
    <<[name |-> "data", filename |-> r.filename, content |-> r.content,
       content_type |-> ContentType(k)]>>

\* --------------------------------------------------- validation, payload
\* the checks _process makes before it encodes or sends anything, in the
\* order it makes them: the exception raised, "" when all pass
MissingMedia(k) ==
    IF k = I2V THEN "ValueError: No input image provided"
    ELSE "ValueError: No input video provided"

MissingKey == "ValueError: missing DECART_API_KEY"
MissingPrompt == "ValueError: No prompt provided"

\* Validate without its prompt check
ValidateNoPromptCheck(k, api_key, media_input, prompt) ==
    IF ~Truthy(api_key) THEN MissingKey
    ELSE IF HasMedia(k) /\ ~Truthy(media_input) THEN MissingMedia(k)
    ELSE ""

\* Validate without its media check
ValidateNoMediaCheck(k, api_key, media_input, prompt) ==
    IF ~Truthy(api_key) THEN MissingKey
    ELSE IF ~Truthy(prompt) THEN MissingPrompt
    ELSE ""

Validate(k, api_key, media_input, prompt) ==
    IF ~Truthy(api_key) THEN MissingKey
    ELSE IF HasMedia(k) /\ ~Truthy(media_input) THEN MissingMedia(k)
    ELSE IF ~Truthy(prompt) THEN MissingPrompt
    ELSE ""

\* PayloadKeys with every field sent by every class, whatever its value
PayloadKeysUnfiltered(k, seed, resolution, orientation) ==
    {"prompt", "seed", "resolution", "orientation"}

\* the keys of data_payload for the values read
PayloadKeys(k, seed, resolution, orientation) ==
    {"prompt"}
    \cup (IF k \in {I2V, T2I, T2V} /\ seed.t # "None" THEN {"seed"} ELSE {})
    \cup (IF k \in {I2V, T2V} /\ Truthy(resolution) THEN {"resolution"} ELSE {})
    \cup (IF k \in {T2I, T2V} /\ Truthy(orientation) THEN {"orientation"} ELSE {})

\* data_payload, the data argument of requests.post
DataPayload(k, prompt, seed, resolution, orientation) ==
    [f \in PayloadKeys(k, seed, resolution, orientation) |->
        CASE f = "prompt" -> prompt
          [] f = "seed" -> seed
          [] f = "resolution" -> resolution
          [] OTHER -> orientation]

\* api_url
ApiUrl(k) == BASE_URL \o MODEL_NAME(k)

\* ------------------------------------------------- the response decoder
\* _convert_response_to_*_url_artifact: token is what uuid.uuid4() returned
\* and save_ok whether save_static_file returned a url
OutputFilename(k, token) ==
    [prefix |-> OutputPrefix(k), uuid |-> token, suffix |-> OutputSuffix(k)]

CallUuid4 == [op |-> "uuid4", url |-> <<>>]
CallSave == [op |-> "save_static_file", url |-> <<>>]

\* ConvertResponse without its check of an empty body
ConvertResponseNoEmptyCheck(k, response_content, token, save_ok) ==
    IF ~save_ok
    THEN [exc |-> "save_static_file error", saves |-> {},
          artifact |-> PyNone, calls |-> <<CallUuid4, CallSave>>]
    ELSE [exc |-> "",
          saves |-> {[filename |-> OutputFilename(k, token), policy |-> SavePolicy(k)]},
          artifact |-> [t |-> "artifact", cls |-> OutputArtifact(k),
                        url |-> OutputFilename(k, token)],
          calls |-> <<CallUuid4, CallSave>>]

ConvertResponse(k, response_content, token, save_ok) ==
    IF response_content = <<>>
    THEN [exc |-> "ValueError: Empty response content", saves |-> {},
          artifact |-> PyNone, calls |-> <<>>]
    ELSE IF ~save_ok
    THEN [exc |-> "save_static_file error", saves |-> {},
          artifact |-> PyNone, calls |-> <<CallUuid4, CallSave>>]
    ELSE [exc |-> "",
          saves |-> {[filename |-> OutputFilename(k, token), policy |-> SavePolicy(k)]},
          artifact |-> [t |-> "artifact", cls |-> OutputArtifact(k),
                        url |-> OutputFilename(k, token)],
          calls |-> <<CallUuid4, CallSave>>]

\* ------------------------------------------------------------ the inputs
\* what the secret or config lookup returns
ApiKeys == {PyNone, PyStr(<<"s", "k", "-", "1">>)}

Prompts == {PyNone, PyStr(<<>>), PyStr(<<"a", " ", "r", "e", "d", " ", "f", "o", "x", " ", "i", "n", " ", "s", "n", "o", "w">>)}

Seeds == {PyNone, PyInt(0), PyInt(42)}

Resolutions == {PyNone, PyStr(<<>>), PyStr(<<"7", "2", "0", "p">>), PyStr(<<"4", "8", "0", "p">>)}

Orientations == {PyNone, PyStr(<<>>), PyStr(<<"l", "a", "n", "d", "s", "c", "a", "p", "e">>), PyStr(<<"p", "o", "r", "t", "r", "a", "i", "t">>)}

\* a dict with a "value" and a "type" entry, and one with a "value" only
Typed(value, media_type) ==
    PyDict(("value" :> PyStr(value)) @@ ("type" :> PyStr(media_type)))

Untyped(value) == PyDict("value" :> PyStr(value))

\* dicts whose value is a base64 data URI: the PNG and the JPEG signature,
\* one byte, no bytes at all, and a payload cut short; and an http URL that
\* holds the base64 marker
DataUriInputs ==
    { Typed(<<"d", "a", "t", "a", ":", "i", "m", "a", "g", "e", "/", "p", "n", "g", ";", "b", "a", "s", "e", "6", "4", ",", "i", "V", "B", "O", "R", "w", "=", "=">>, <<"i", "m", "a", "g", "e", "/", "p", "n", "g">>),
      Untyped(<<"h", "t", "t", "p", "s", ":", "/", "/", "h", ".", "i", "o", "/", "b", "a", "s", "e", "6", "4", ",", "A", "A", "A", "A">>),
      Typed(<<"d", "a", "t", "a", ":", "i", "m", "a", "g", "e", "/", "j", "p", "e", "g", ";", "b", "a", "s", "e", "6", "4", ",", "/", "9", "j", "/">>, <<"i", "m", "a", "g", "e", "/", "j", "p", "e", "g">>),
      Typed(<<"d", "a", "t", "a", ":", "v", "i", "d", "e", "o", "/", "m", "p", "4", ";", "b", "a", "s", "e", "6", "4", ",", "A", "A", "=", "=">>, <<"v", "i", "d", "e", "o", "/", "m", "p", "4">>),
      Typed(<<"d", "a", "t", "a", ":", "i", "m", "a", "g", "e", "/", "p", "n", "g", ";", "b", "a", "s", "e", "6", "4", ",", "i", "V", "B", "O", "R", "w", "=", "=">>, <<"p", "n", "g">>),
      Untyped(<<"d", "a", "t", "a", ":", "i", "m", "a", "g", "e", "/", "p", "n", "g", ";", "b", "a", "s", "e", "6", "4", ",", "i", "V", "B", "O", "R", "w", "=", "=">>),
      Typed(<<"d", "a", "t", "a", ":", "i", "m", "a", "g", "e", "/", "p", "n", "g", ";", "b", "a", "s", "e", "6", "4", ",">>, <<"i", "m", "a", "g", "e", "/", "p", "n", "g">>),
      Typed(<<"d", "a", "t", "a", ":", "i", "m", "a", "g", "e", "/", "p", "n", "g", ";", "b", "a", "s", "e", "6", "4", ",", "i", "V", "B">>, <<"i", "m", "a", "g", "e", "/", "p", "n", "g">>) }

\* dicts whose value is a URL: a short extension, none, a long one, no path,
\* a query string after the extension (short and long), a directory
UrlInputs ==
    { Untyped(<<"h", "t", "t", "p", "s", ":", "/", "/", "h", ".", "i", "o", "/", "a", ".", "w", "e", "b", "p">>),
      Untyped(<<"h", "t", "t", "p", ":", "/", "/", "h", ".", "i", "o", "/", "c", "l", "i", "p">>),
      Untyped(<<"h", "t", "t", "p", "s", ":", "/", "/", "h", ".", "i", "o", "/", "a", ".", "j", "p", "e", "g", "2">>),
      Untyped(<<"h", "t", "t", "p", "s", ":", "/", "/", "h", ".", "i", "o">>),
      Untyped(<<"h", "t", "t", "p", "s", ":", "/", "/", "h", ".", "i", "o", "/", "a", ".", "g", "z", "?", "1">>),
      Untyped(<<"h", "t", "t", "p", "s", ":", "/", "/", "h", ".", "i", "o", "/", "a", ".", "p", "n", "g", "?", "v", "=", "2">>),
      Untyped(<<"h", "t", "t", "p", "s", ":", "/", "/", "h", ".", "i", "o", "/", "v", "1", ".", "2", "/">>) }

\* the other dicts: empty, a value that is no data URI and no http URL, no
\* value, a value that is no string
OtherDictInputs ==
    { PyDict(<<>>),
      Untyped(<<"f", "t", "p", ":", "/", "/", "h", ".", "i", "o", "/", "a", ".", "p", "n", "g">>),
      PyDict("type" :> PyStr(<<"i", "m", "a", "g", "e", "/", "p", "n", "g">>)),
      PyDict("value" :> PyInt(5)) }

\* objects: URL artifacts (to_bytes and a str value), a blob artifact
\* (to_bytes and a bytes value), objects with a bytes value only, an object
\* with neither
ObjectInputs ==
    { PyObj("UrlArtifact", {"to_bytes", "value"}, PyStr(<<"h", "t", "t", "p", "s", ":", "/", "/", "h", ".", "i", "o", "/", "a", ".", "w", "e", "b", "p">>), TRUE),
      PyObj("UrlArtifact", {"to_bytes", "value"}, PyStr(<<"h", "t", "t", "p", "s", ":", "/", "/", "h", ".", "i", "o">>), TRUE),
      PyObj("UrlArtifact", {"to_bytes", "value"}, PyStr(<<>>), FALSE),
      PyObj("BlobArtifact", {"to_bytes", "value"}, PyBytes(<<1, 2>>), TRUE),
      PyObj("BytesHolder", {"value"}, PyBytes(<<1, 2>>), TRUE),
      PyObj("BytesHolder", {"value"}, PyBytes(<<>>), TRUE),
      PyObj("object", {}, PyNone, TRUE) }

MediaInputs == {PyNone} \cup DataUriInputs \cup UrlInputs \cup OtherDictInputs \cup ObjectInputs

\* the outcomes of requests.get(url): an exception, or a response (a 3xx
\* response is one requests could not follow, such as 300 Multiple Choices)
GetOutcomes ==
    { [exc |-> TRUE, status_code |-> 0, content |-> <<>>],
      [exc |-> FALSE, status_code |-> 404, content |-> <<4>>],
      [exc |-> FALSE, status_code |-> 300, content |-> <<3>>],
      [exc |-> FALSE, status_code |-> 200, content |-> <<>>],
      [exc |-> FALSE, status_code |-> 200, content |-> <<7, 8>>] }

\* the outcomes of media_input.to_bytes()
ToBytesOutcomes ==
    { [exc |-> TRUE, content |-> <<>>],
      [exc |-> FALSE, content |-> <<>>],
      [exc |-> FALSE, content |-> <<1, 2>>] }

\* the outcomes of requests.post
PostOutcomes ==
    { [exc |-> TRUE, status_code |-> 0, content |-> <<>>],
      [exc |-> FALSE, status_code |-> 500, content |-> <<5>>],
      [exc |-> FALSE, status_code |-> 300, content |-> <<3>>],
      [exc |-> FALSE, status_code |-> 200, content |-> <<>>],
      [exc |-> FALSE, status_code |-> 200, content |-> <<9, 9>>] }

Tokens == 1..MaxToken

\* the value get_parameter_value returns for a parameter: one of its domain
\* when the class declares it, None when it does not
ParameterValues(k, name, domain) == IF name \in Parameters(k) THEN domain ELSE {PyNone}

\* ------------------------------------------------------------- the state
VARIABLES
    kind,           \* the class of the node
    runs,           \* the executions started
    pc,             \* where the execution is: idle, encode, post, decode, done, failed
    inp,            \* the values the execution read: api_key and the parameters
    files_payload,  \* the file parts the encoder returned
    calls,          \* the calls the execution made, in order
    posts,          \* the requests the execution sent to the provider, in order
    replies,        \* what came back for the execution's GET and POST, in order
    response,       \* the body of the provider's 2xx response
    exc,            \* the exception the execution ended with, "" when none
    output,         \* the value of the node's output parameter
    storage         \* the files saved: the name and the policy requested

vars ==
    <<kind, runs, pc, inp, files_payload, calls, posts, replies, response, exc,
      output, storage>>

NoInput ==
    [api_key |-> PyNone, media |-> PyNone, prompt |-> PyNone, seed |-> PyNone,
     resolution |-> PyNone, orientation |-> PyNone]

Init ==
    /\ kind \in Kinds
    /\ runs = 0
    /\ pc = "idle"
    /\ inp = NoInput
    /\ files_payload = <<>>
    /\ calls = <<>>
    /\ posts = <<>>
    /\ replies = <<>>
    /\ response = <<>>
    /\ exc = ""
    /\ output = PyNone
    /\ storage = {}

\* ------------------------------------------------------------ the actions
CallGetSecret == [op |-> "get_secret", url |-> <<>>]
CallEncode == [op |-> "encode", url |-> <<>>]
CallPost(url) == [op |-> "POST", url |-> url]
CallPublish == [op |-> "publish_update_to_parameter", url |-> <<>>]

\* what an HTTP call of the given method came back with
Reply(op, outcome) ==
    [op |-> op, exc |-> outcome.exc, status_code |-> outcome.status_code]

\* _process up to the encoder: the API key is looked up, the parameters are
\* read and the media input and the prompt are checked
Start ==
    /\ pc = "idle"
    /\ runs < MaxRuns
    /\ \E api_key \in ApiKeys,
          media \in ParameterValues(kind, MediaParameter(kind), MediaInputs),
          prompt \in ParameterValues(kind, "prompt", Prompts),
          seed \in ParameterValues(kind, "seed", Seeds),
          resolution \in ParameterValues(kind, "resolution", Resolutions),
          orientation \in ParameterValues(kind, "orientation", Orientations) :
          LET e == Validate(kind, api_key, media, prompt)
          IN /\ inp' = [api_key |-> api_key, media |-> media, prompt |-> prompt,
                        seed |-> seed, resolution |-> resolution,
                        orientation |-> orientation]
             /\ exc' = e
             /\ pc' = IF e # "" THEN "failed"
                      ELSE IF HasMedia(kind) THEN "encode" ELSE "post"
    /\ runs' = runs + 1
    /\ files_payload' = <<>>
    /\ calls' = <<CallGetSecret>>
    /\ posts' = <<>>
    /\ replies' = <<>>
    /\ response' = <<>>
    /\ UNCHANGED <<kind, output, storage>>

\* the call of the media payload encoder
Encode ==
    /\ pc = "encode"
    /\ \E get \in GetOutcomes, to_bytes \in ToBytesOutcomes :
          LET r == ConvertToFilePayload(kind, inp.media, get, to_bytes)
          IN /\ calls' = calls \o <<CallEncode>> \o r.calls
             /\ exc' = r.exc
             /\ files_payload' = IF r.exc = "" THEN FilesPayload(kind, r) ELSE <<>>
             /\ replies' = IF \E i \in DOMAIN r.calls : r.calls[i].op = "GET"
                           THEN Append(replies, Reply("GET", get))
                           ELSE replies
             /\ pc' = IF r.exc = "" THEN "post" ELSE "failed"
    /\ UNCHANGED <<kind, runs, inp, posts, response, output, storage>>

\* Post with the request sent once more after a first failure
PostWithRetry ==
    /\ pc = "post"
    /\ \E post \in PostOutcomes :
          LET request == [url |-> ApiUrl(kind),
                          api_key |-> inp.api_key,
                          data |-> DataPayload(kind, inp.prompt, inp.seed,
                                               inp.resolution, inp.orientation),
                          files |-> files_payload]
              e == IF post.exc THEN "requests.ConnectionError"
                   ELSE IF RaisesForStatus(post.status_code) THEN "requests.HTTPError"
                   ELSE ""
              again == e # "" /\ posts = <<>>
          IN /\ posts' = Append(posts, request)
             /\ replies' = Append(replies, Reply("POST", post))
             /\ calls' = Append(calls, CallPost(request.url))
             /\ exc' = IF again THEN "" ELSE e
             /\ response' = IF e = "" THEN post.content ELSE <<>>
             /\ pc' = IF e = "" THEN "decode" ELSE IF again THEN "post" ELSE "failed"
    /\ UNCHANGED <<kind, runs, inp, files_payload, output, storage>>

\* the request to the provider: data_payload is built, requests.post is
\* called and the response is checked with raise_for_status
Post ==
    /\ pc = "post"
    /\ \E post \in PostOutcomes :
          LET request == [url |-> ApiUrl(kind),
                          api_key |-> inp.api_key,
                          data |-> DataPayload(kind, inp.prompt, inp.seed,
                                               inp.resolution, inp.orientation),
                          files |-> files_payload]
              e == IF post.exc THEN "requests.ConnectionError"
                   ELSE IF RaisesForStatus(post.status_code) THEN "requests.HTTPError"
                   ELSE ""
          IN /\ posts' = Append(posts, request)
             /\ replies' = Append(replies, Reply("POST", post))
             /\ calls' = Append(calls, CallPost(request.url))
             /\ exc' = e
             /\ response' = IF e = "" THEN post.content ELSE <<>>
             /\ pc' = IF e = "" THEN "decode" ELSE "failed"
    /\ UNCHANGED <<kind, runs, inp, files_payload, output, storage>>

\* Decode with the artifact published before the body is checked and saved
DecodePublishFirst ==
    /\ pc = "decode"
    /\ \E token \in Tokens, save_ok \in BOOLEAN :
          LET r == ConvertResponse(kind, response, token, save_ok)
          IN /\ calls' = calls \o <<CallPublish>> \o r.calls
             /\ storage' = storage \cup r.saves
             /\ output' = [t |-> "artifact", cls |-> OutputArtifact(kind),
                           url |-> OutputFilename(kind, token)]
             /\ exc' = r.exc
             /\ pc' = IF r.exc = "" THEN "done" ELSE "failed"
    /\ UNCHANGED <<kind, runs, inp, files_payload, posts, replies, response>>

\* the response decoder and the publish of its artifact
Decode ==
    /\ pc = "decode"
    /\ \E token \in Tokens, save_ok \in BOOLEAN :
          LET r == ConvertResponse(kind, response, token, save_ok)
          IN /\ calls' = calls \o r.calls
                         \o (IF r.exc = "" THEN <<CallPublish>> ELSE <<>>)
             /\ storage' = storage \cup r.saves
             /\ output' = IF r.exc = "" THEN r.artifact ELSE output
             /\ exc' = r.exc
             /\ pc' = IF r.exc = "" THEN "done" ELSE "failed"
    /\ UNCHANGED <<kind, runs, inp, files_payload, posts, replies, response>>

\* _process returns or raises: its locals are gone, and what stays is the
\* output parameter and the storage
Finish ==
    /\ pc \in {"done", "failed"}
    /\ pc' = "idle"
    /\ inp' = NoInput
    /\ files_payload' = <<>>
    /\ calls' = <<>>
    /\ posts' = <<>>
    /\ replies' = <<>>
    /\ response' = <<>>
    /\ exc' = ""
    /\ UNCHANGED <<kind, runs, output, storage>>

Next == Start \/ Encode \/ Post \/ Decode \/ Finish

Spec == Init /\ [][Next]_vars

TypeOK ==
    /\ kind \in Kinds
    /\ runs \in 0..MaxRuns
    /\ pc \in {"idle", "encode", "post", "decode", "done", "failed"}
    /\ exc # "" <=> pc = "failed"

\* ================================================================ claims
\* the calls of the running execution with one of the given names
CallsOf(ops) == {i \in DOMAIN calls : calls[i].op \in ops}

\* the execution has issued no HTTP request: no POST to the provider, no GET
\* of a media URL, no to_bytes (which fetches the URL of a URL artifact)
NoHttpCall == CallsOf({"POST", "GET", "to_bytes"}) = {} /\ posts = <<>>

\* the encoder was not invoked, and none of the calls it makes was made
NoEncoderCall == CallsOf({"encode", "b64decode", "GET", "to_bytes"}) = {}

\* s ends with suffix
EndsWith(s, suffix) ==
    Len(suffix) <= Len(s) /\ SubSeq(s, Len(s) - Len(suffix) + 1, Len(s)) = suffix

\* ---- C1
\* C1 (as claimed): a DecartLucyProT2I request for prompt "a red fox in snow",
\* seed 42, orientation "portrait" carries exactly prompt, seed, orientation
\* and resolution "720p", has no file part and goes to the endpoint ending
\* in lucy-pro-t2i; every DecartLucyProT2I request carries resolution "720p".
C1_T2IRequestCarriesResolution ==
    kind = T2I =>
        \A i \in DOMAIN posts :
            /\ "resolution" \in DOMAIN posts[i].data
            /\ posts[i].data["resolution"] = PyStr(<<"7", "2", "0", "p">>)
            /\ posts[i].files = <<>>
            /\ EndsWith(posts[i].url, <<"l", "u", "c", "y", "-", "p", "r", "o", "-", "t", "2", "i">>)
            /\ (/\ inp.prompt = PyStr(<<"a", " ", "r", "e", "d", " ", "f", "o", "x", " ", "i", "n", " ", "s", "n", "o", "w">>)
                /\ inp.seed = PyInt(42)
                /\ inp.orientation = PyStr(<<"p", "o", "r", "t", "r", "a", "i", "t">>))
               => /\ DOMAIN posts[i].data = {"prompt", "seed", "orientation", "resolution"}
                  /\ posts[i].data["prompt"] = inp.prompt
                  /\ posts[i].data["seed"] = inp.seed
                  /\ posts[i].data["orientation"] = inp.orientation

\* ---- C2
\* C2 (as claimed): every DecartLucyDevI2V request carries resolution "720p",
\* whatever value the resolution parameter holds.
C2_I2VResolutionFixed ==
    kind = I2V =>
        \A i \in DOMAIN posts :
            /\ "resolution" \in DOMAIN posts[i].data
            /\ posts[i].data["resolution"] = PyStr(<<"7", "2", "0", "p">>)

\* ---- C3
\* the execution under way (or just ended) read an empty or absent prompt
EmptyPromptRead == pc # "idle" /\ ~Truthy(inp.prompt)

\* C3 (as claimed): an execution whose prompt is empty or absent fails with
\* the missing-prompt error before any HTTP call.
C3_EmptyPromptAlwaysMissingPrompt ==
    EmptyPromptRead => pc = "failed" /\ exc = MissingPrompt /\ NoHttpCall

\* C3 (amended): an execution whose prompt is empty or absent fails before
\* any HTTP call; its error is the missing-prompt error when the API key
\* resolved and the media input (of the classes that take one) is present,
\* and otherwise the error of the check that failed first: the missing key,
\* then the missing media.
C3_EmptyPromptFailsBeforeHttp ==
    EmptyPromptRead =>
        /\ pc = "failed"
        /\ NoHttpCall
        /\ exc = IF inp.api_key \in {PyNone, PyStr(<<>>)}
                 THEN "ValueError: missing DECART_API_KEY"
                 ELSE IF kind \in {I2V, Edit} /\ ~Truthy(inp.media)
                 THEN (IF kind = I2V THEN "ValueError: No input image provided"
                       ELSE "ValueError: No input video provided")
                 ELSE "ValueError: No prompt provided"

\* the missing-prompt error was raised for a node with a media input present
C3_Witness ==
    /\ EmptyPromptRead
    /\ kind = I2V
    /\ inp.media = Untyped(<<"h", "t", "t", "p", "s", ":", "/", "/", "h", ".", "i", "o", "/", "a", ".", "w", "e", "b", "p">>)
    /\ exc = "ValueError: No prompt provided"
    /\ pc = "failed"

\* ---- C4
\* the execution under way (or just ended) read an absent or empty media input
EmptyMediaRead == pc # "idle" /\ kind \in {I2V, Edit} /\ ~Truthy(inp.media)

\* C4 (as claimed): an execution of a media node whose media input is absent
\* or empty fails with the missing-media error before the encoder is invoked.
C4_EmptyMediaAlwaysMissingMedia ==
    EmptyMediaRead =>
        /\ pc = "failed"
        /\ NoEncoderCall
        /\ exc = (IF kind = I2V THEN "ValueError: No input image provided"
                  ELSE "ValueError: No input video provided")

\* C4 (amended): an execution of a media node whose media input is absent or
\* empty fails before the encoder is invoked; its error is the missing-media
\* error when the API key resolved, and the missing-key error otherwise.
C4_EmptyMediaFailsBeforeEncoder ==
    EmptyMediaRead =>
        /\ pc = "failed"
        /\ NoEncoderCall
        /\ exc = IF inp.api_key \in {PyNone, PyStr(<<>>)}
                 THEN "ValueError: missing DECART_API_KEY"
                 ELSE IF kind = I2V THEN "ValueError: No input image provided"
                 ELSE "ValueError: No input video provided"

\* the missing-media error was raised for an empty dict given with a prompt
C4_Witness ==
    /\ EmptyMediaRead
    /\ kind = Edit
    /\ inp.media = PyDict(<<>>)
    /\ Truthy(inp.prompt)
    /\ exc = "ValueError: No input video provided"
    /\ pc = "failed"

\* ---- C5
\* C5: no request carries a field its class has none of: a video-edit
\* request carries the prompt only, an image-to-video request carries no
\* orientation, and every request carries a non-empty prompt.
C5_NoInapplicableField ==
    \A i \in DOMAIN posts :
        /\ "prompt" \in DOMAIN posts[i].data
        /\ posts[i].data["prompt"].t = "str"
        /\ posts[i].data["prompt"].v # <<>>
        /\ kind = Edit => DOMAIN posts[i].data = {"prompt"}
        /\ kind = I2V => "orientation" \notin DOMAIN posts[i].data

\* a video-edit request was sent
C5_Witness ==
    /\ kind = Edit
    /\ Len(posts) = 1
    /\ DOMAIN posts[1].data = {"prompt"}

\* ---- C6
\* C6 (as claimed): seed, resolution and orientation are in the field map of
\* a request if and only if their value is not None.
C6_OptionalFieldIffNonNull ==
    \A i \in DOMAIN posts :
        /\ "seed" \in DOMAIN posts[i].data <=> inp.seed # PyNone
        /\ "resolution" \in DOMAIN posts[i].data <=> inp.resolution # PyNone
        /\ "orientation" \in DOMAIN posts[i].data <=> inp.orientation # PyNone

\* ---- C7
\* the base64 text of the bytes bs, padded (RFC 4648)
RECURSIVE B64Encode(_)
B64Encode(bs) ==
    LET ch(n) == <<B64Alphabet[n + 1]>>
    IN IF bs = <<>> THEN <<>>
       ELSE IF Len(bs) = 1
       THEN ch(bs[1] \div 4) \o ch((bs[1] % 4) * 16) \o <<"=", "=">>
       ELSE IF Len(bs) = 2
       THEN ch(bs[1] \div 4) \o ch((bs[1] % 4) * 16 + bs[2] \div 16)
            \o ch((bs[2] % 16) * 4) \o <<"=">>
       ELSE ch(bs[1] \div 4) \o ch((bs[1] % 4) * 16 + bs[2] \div 16)
            \o ch((bs[2] % 16) * 4 + bs[3] \div 64) \o ch(bs[3] % 64)
            \o B64Encode(SubSeq(bs, 4, Len(bs)))

\* the media input read is a dict whose value is a base64 data URI and whose
\* type is absent or of the form T/X
DataUriRead ==
    /\ inp.media.t = "dict"
    /\ "value" \in DOMAIN inp.media.items
    /\ inp.media.items["value"].t = "str"
    /\ \E i \in 1..Len(inp.media.items["value"].v) :
          MatchAt(inp.media.items["value"].v, <<"b", "a", "s", "e", "6", "4", ",">>, i)
    /\ "type" \in DOMAIN inp.media.items =>
          /\ inp.media.items["type"].t = "str"
          /\ Cardinality({i \in DOMAIN inp.media.items["type"].v :
                             inp.media.items["type"].v[i] = "/"}) = 1

\* the text after the marker of the data URI read
DataUriPayload ==
    LET v == inp.media.items["value"].v
        m == CHOOSE i \in 1..Len(v) :
                MatchAt(v, <<"b", "a", "s", "e", "6", "4", ",">>, i) /\ \A j \in 1..(i - 1) : ~MatchAt(v, <<"b", "a", "s", "e", "6", "4", ",">>, j)
    IN SubSeq(v, m + 7, Len(v))

\* the X of the type T/X read
TypeExtension ==
    LET ty == inp.media.items["type"].v
        slash == CHOOSE i \in DOMAIN ty : ty[i] = "/"
    IN SubSeq(ty, slash + 1, Len(ty))

\* C7: the file part encoded from a dict with a base64 data URI and a type
\* T/X is named "input.X" and holds the bytes the text after the marker
\* decodes to; without a type it is named with the default extension.
C7_DataUriFilePart ==
    (files_payload # <<>> /\ DataUriRead) =>
        /\ files_payload[1].filename =
              (IF "type" \in DOMAIN inp.media.items THEN <<"i", "n", "p", "u", "t", ".">> \o TypeExtension
               ELSE IF kind = I2V THEN <<"i", "n", "p", "u", "t", ".", "p", "n", "g">> ELSE <<"i", "n", "p", "u", "t", ".", "m", "p", "4">>)
        /\ B64Encode(files_payload[1].content) = DataUriPayload

\* a JPEG data URI was encoded to input.jpeg with the decoded signature
C7_Witness ==
    /\ files_payload # <<>>
    /\ DataUriRead
    /\ inp.media = Typed(<<"d", "a", "t", "a", ":", "i", "m", "a", "g", "e", "/", "j", "p", "e", "g", ";", "b", "a", "s", "e", "6", "4", ",", "/", "9", "j", "/">>, <<"i", "m", "a", "g", "e", "/", "j", "p", "e", "g">>)
    /\ files_payload[1].filename = <<"i", "n", "p", "u", "t", ".", "j", "p", "e", "g">>
    /\ files_payload[1].content = <<255, 216, 255>>

\* ---- C8
\* the media input read is a URL: the value of a dict that is an http(s)
\* URL, or the str value of an object with to_bytes
UrlRead ==
    \/ /\ inp.media.t = "dict"
       /\ "value" \in DOMAIN inp.media.items
       /\ inp.media.items["value"].t = "str"
       /\ \/ StartsWith(inp.media.items["value"].v, <<"h", "t", "t", "p", ":", "/", "/">>)
          \/ StartsWith(inp.media.items["value"].v, <<"h", "t", "t", "p", "s", ":", "/", "/">>)
    \/ /\ inp.media.t = "obj"
       /\ "to_bytes" \in inp.media.attrs
       /\ inp.media.value.t = "str"

UrlOfInput == IF inp.media.t = "dict" THEN inp.media.items["value"].v ELSE inp.media.value.v

\* the filename the claim gives a URL: the trailing segment of its path when
\* the URL has a path, no query string, and the segment an extension of at
\* most 4 characters; the default filename otherwise
ClaimedUrlFilename(url) ==
    LET scheme == IF StartsWith(url, <<"h", "t", "t", "p", "s", ":", "/", "/">>) THEN 8
                  ELSE IF StartsWith(url, <<"h", "t", "t", "p", ":", "/", "/">>) THEN 7 ELSE 0
        pieces == Split(SubSeq(url, scheme + 1, Len(url)), <<"/">>)
        segment == Last(pieces)
        dots == {i \in DOMAIN segment : segment[i] = "."}
        default == IF kind = I2V THEN <<"i", "n", "p", "u", "t", ".", "p", "n", "g">> ELSE <<"i", "n", "p", "u", "t", ".", "m", "p", "4">>
    IN IF /\ Len(pieces) > 1
          /\ ~Contains(url, <<"?">>)
          /\ dots # {}
          /\ \E i \in dots : Len(segment) - i <= 4 /\ \A j \in dots : j <= i
       THEN segment
       ELSE default

\* C8 (as claimed): the file part encoded from a URL is named by the trailing
\* path segment when that has an extension of at most 4 characters, and by
\* the default filename for every other URL, a URL with no path and a URL
\* with a query string after the extension included.
C8_UrlFilenameAsClaimed ==
    (files_payload # <<>> /\ UrlRead) =>
        files_payload[1].filename = ClaimedUrlFilename(UrlOfInput)

\* ---- C9
\* C9 (as claimed): no file part sent to the provider has empty content.
C9_FilePartNeverEmpty ==
    \A i \in DOMAIN posts :
        \A j \in DOMAIN posts[i].files : posts[i].files[j].content # <<>>

\* ---- C10
\* C10 (as claimed): every file is saved under a policy that rejects or
\* creates a new name when the name exists.
C10_SaveNeverOverwrites ==
    \A f \in storage : f.policy \in {"CREATE_NEW", "FAIL"}

\* ---- C11
\* the decoder made none of its calls and nothing was published
NoDecoderCall ==
    CallsOf({"uuid4", "save_static_file", "publish_update_to_parameter"}) = {}

\* C11: when the provider's response has a zero-length body, the decoder
\* raises the empty-response error, saves no file and publishes nothing.
C11_EmptyResponseFails ==
    [][(pc = "decode" /\ response = <<>>) =>
          /\ pc' = "failed"
          /\ exc' = "ValueError: Empty response content"
          /\ storage' = storage
          /\ output' = output
          /\ NoDecoderCall']_vars

\* a 200 response with an empty body ended in the empty-response error
C11_Witness ==
    /\ pc = "failed"
    /\ exc = "ValueError: Empty response content"
    /\ Len(replies) > 0
    /\ replies[Len(replies)] = [op |-> "POST", exc |-> FALSE, status_code |-> 200]
    /\ response = <<>>
    /\ NoDecoderCall

\* ---- C12
\* the provider call of the execution failed: the transport raised, or the
\* response's status is not 2xx
ProviderFailed ==
    \E i \in DOMAIN replies :
        /\ replies[i].op = "POST"
        /\ replies[i].exc \/ replies[i].status_code \notin 200..299

\* C12 (as claimed): when the provider call fails with a transport error or a
\* non-2xx status, the execution fails with the transport or provider error
\* and the decoder is not reached: no filename is generated, nothing is saved
\* and nothing is published.
C12_ProviderFailureSkipsDecoder ==
    [][ProviderFailed' =>
          /\ pc' = "failed"
          /\ exc' \in {"requests.ConnectionError", "requests.HTTPError"}
          /\ NoDecoderCall'
          /\ storage' = storage
          /\ output' = output]_vars

\* ---- C13
\* every stage of the execution went through: the key resolved, the inputs
\* were valid, the media (of a class that takes one) was encoded to one file
\* part, one request was sent and its response raised nothing, and the body
\* was not empty
AllStagesPassed ==
    /\ inp.api_key.t = "str" /\ inp.api_key.v # <<>>
    /\ inp.prompt.t = "str" /\ inp.prompt.v # <<>>
    /\ kind \in {I2V, Edit} => Truthy(inp.media) /\ Len(files_payload) = 1
    /\ kind \in {T2I, T2V} => files_payload = <<>>
    /\ Len(posts) = 1
    /\ replies # <<>>
    /\ replies[Len(replies)].op = "POST"
    /\ ~replies[Len(replies)].exc
    /\ replies[Len(replies)].status_code < 400
    /\ response # <<>>

EncoderRan == CallsOf({"encode"}) # {} /\ pc # "encode"

\* the names of the calls the execution made
OpsCalled == {calls[i].op : i \in DOMAIN calls}

\* the execution failed with one of the encoder's unsupported-format errors,
\* and the encoder decoded, fetched and materialized nothing
UnsupportedFormatRaised ==
    /\ pc = "failed"
    /\ exc \in {"ValueError: Unsupported dictionary value format",
                "ValueError: Unsupported input type"}
    /\ OpsCalled \cap {"b64decode", "GET", "to_bytes"} = {}

\* the value of the dict read is a string
DictValueIsStr ==
    "value" \in DOMAIN inp.media.items /\ inp.media.items["value"].t = "str"

\* C15 (as claimed): the encoder handles a dict first, its value by the
\* base64 marker before the URL prefix and every other value (a missing one
\* and one that is no string included) as an unsupported-format error; then
\* an object with to_bytes, which it materializes; then an object with a
\* bytes value, sent as it is under the default filename; and everything
\* else as an unsupported-format error.
C15_EncoderPrecedence ==
    EncoderRan =>
        IF inp.media.t = "dict"
        THEN IF DictValueIsStr /\ Contains(inp.media.items["value"].v, <<"b", "a", "s", "e", "6", "4", ",">>)
             THEN OpsCalled \cap {"b64decode", "GET", "to_bytes"} = {"b64decode"}
             ELSE IF /\ DictValueIsStr
                     /\ \/ StartsWith(inp.media.items["value"].v, <<"h", "t", "t", "p", ":", "/", "/">>)
                        \/ StartsWith(inp.media.items["value"].v, <<"h", "t", "t", "p", "s", ":", "/", "/">>)
             THEN OpsCalled \cap {"b64decode", "GET", "to_bytes"} = {"GET"}
             ELSE UnsupportedFormatRaised
        ELSE IF inp.media.t = "obj" /\ "to_bytes" \in inp.media.attrs
        THEN OpsCalled \cap {"b64decode", "GET", "to_bytes"} = {"to_bytes"}
        ELSE IF /\ inp.media.t = "obj"
                /\ "value" \in inp.media.attrs
                /\ inp.media.value.t = "bytes"
        THEN /\ OpsCalled \cap {"b64decode", "GET", "to_bytes"} = {}
             /\ Len(files_payload) = 1
             /\ files_payload[1].content = inp.media.value.v
             /\ files_payload[1].filename =
                   (IF kind = I2V THEN <<"i", "n", "p", "u", "t", ".", "p", "n", "g">> ELSE <<"i", "n", "p", "u", "t", ".", "m", "p", "4">>)
        ELSE UnsupportedFormatRaised

\* ---- C16
\* the fetch of the remote media failed: requests.get raised, or its
\* response's status is not 2xx
FetchFailed ==
    \E i \in DOMAIN replies :
        /\ replies[i].op = "GET"
        /\ replies[i].exc \/ replies[i].status_code \notin 200..299

\* C16 (as claimed): a POST is sent only after the API key resolved to a
\* non-empty value, the required media is present, the prompt is non-empty
\* and the media was encoded; and an execution whose credential is missing,
\* whose media format is unsupported or whose media fetch failed (non-2xx or
\* network failure) fails and sends no POST.
C16_PostOnlyAfterChecks ==
    /\ posts # <<>> =>
          /\ inp.api_key.t = "str" /\ inp.api_key.v # <<>>
          /\ inp.prompt.t = "str" /\ inp.prompt.v # <<>>
          /\ kind \in {I2V, Edit} =>
                /\ Truthy(inp.media)
                /\ CallsOf({"encode"}) # {}
                /\ Len(files_payload) = 1
                /\ posts[1].files = files_payload
          /\ \A i \in CallsOf({"POST"}) :
                \A j \in CallsOf({"get_secret", "encode", "b64decode", "GET", "to_bytes"}) :
                    j < i
    /\ (/\ pc # "idle"
        /\ \/ inp.api_key \in {PyNone, PyStr(<<>>)}
           \/ exc \in {"ValueError: Unsupported dictionary value format",
                       "ValueError: Unsupported input type"}
           \/ FetchFailed)
       => pc = "failed" /\ posts = <<>> /\ CallsOf({"POST"}) = {}

\* ---- C17
\* C17: an execution sends at most one POST: a request is sent only by an
\* execution that has sent none, and a failed execution sends nothing more
\* and can only end.
C17_SinglePost ==
    [][/\ Len(posts') <= 1
       /\ Cardinality(CallsOf({"POST"})') <= 1
       /\ posts' # posts /\ posts' # <<>> => posts = <<>> /\ pc = "post"
       /\ pc = "failed" =>
             /\ pc' = "idle"
             /\ posts' = <<>>
             /\ CallsOf({"POST"})' = {}
             /\ storage' = storage
             /\ output' = output]_vars

\* the one request of an execution failed in the transport and the
\* execution ended there
C17_Witness ==
    /\ pc = "failed"
    /\ exc = "requests.ConnectionError"
    /\ Len(posts) = 1
    /\ Cardinality(CallsOf({"POST"})) = 1

\* ---- C18
\* C18: the content type of every file part sent is image/png for the
\* image-to-video node and video/mp4 for the video-edit node, whatever the
\* input's type entry, the filename derived and the bytes.
C18_ContentTypeAsserted ==
    \A i \in DOMAIN posts :
        \A j \in DOMAIN posts[i].files :
            posts[i].files[j].content_type =
                (IF kind = I2V THEN <<"i", "m", "a", "g", "e", "/", "p", "n", "g">> ELSE <<"v", "i", "d", "e", "o", "/", "m", "p", "4">>)

\* the image-to-video node sent a JPEG, named input.jpeg, as image/png
C18_Witness ==
    /\ kind = I2V
    /\ Len(posts) = 1
    /\ inp.media = Typed(<<"d", "a", "t", "a", ":", "i", "m", "a", "g", "e", "/", "j", "p", "e", "g", ";", "b", "a", "s", "e", "6", "4", ",", "/", "9", "j", "/">>, <<"i", "m", "a", "g", "e", "/", "j", "p", "e", "g">>)
    /\ Len(posts[1].files) = 1
    /\ posts[1].files[1].filename = <<"i", "n", "p", "u", "t", ".", "j", "p", "e", "g">>
    /\ posts[1].files[1].content = <<255, 216, 255>>
    /\ posts[1].files[1].content_type = <<"i", "m", "a", "g", "e", "/", "p", "n", "g">>

====
